---- MODULE Spec2Model ----
(***************************************************************************)
(* Model of the zone database reload engine (knot/server/zone-load.c):     *)
(* zone_freeze, zone_file_status, bootstrap_zone, load_zone,               *)
(* preserve_zone, create_zone, update_zone, zone_loader_thread,            *)
(* load_zonedb, remove_zones and zones_update_db_from_config, together     *)
(* with the lock-free readers of ns->zone_db and the caller's deferred     *)
(* reclamation of the retired database.                                    *)
(***************************************************************************)
EXTENDS Integers, Sequences, FiniteSets, TLC

(* ------------------------------------------------------------------ *)
(* Values and bounds                                                   *)
(* ------------------------------------------------------------------ *)

\* The null pointer.
NULL == 0
\* stat() == -1: the zone file does not exist.
NoFile == -1
\* Largest modification time a zone file takes (0 is a legal st_mtime).
MaxMtime == 1
\* Reload cycles run in a row by SpecGen.
MaxCycles == 3
\* Changes of a zone file by the environment during one behaviour.
MaxFileChanges == 1
\* dt_optimal_size(): the platform's recommended number of loader threads.
DtOptimalSize == 2
\* Entries of one configuration snapshot (conf->zones_count at most).
MaxConf == 2

Names == {"a", "b"}
NoName == "none"
Mtimes == 0..MaxMtime
FileStates == {NoFile} \cup Mtimes
Workers == 1..DtOptimalSize
Readers == {"r1"}
ZoneIds == 1..((MaxCycles + 1) * MaxConf)
DbIds == 1..(MaxCycles + 1)

\* zone_status_t
ZONE_STATUS_NOT_FOUND == "NOT_FOUND"
ZONE_STATUS_FOUND_NEW == "FOUND_NEW"
ZONE_STATUS_FOUND_CURRENT == "FOUND_CURRENT"
ZONE_STATUS_FOUND_UPDATED == "FOUND_UPDATED"
NoStatus == "-"

\* Results of zones_journal_apply and of the calls that return KNOT_EOK or fail.
JournalResults == {"EOK", "ERANGE", "ENOENT", "ERROR"}
CallResults == {"EOK", "ERROR"}
\* The call has not been made.
NoResult == "-"

VARIABLES
    files,      \* zone name -> NoFile or the zone file's st_mtime
    fchanges,   \* number of changes of zone files so far
    conf,       \* the configuration snapshot handed to the reload
    queue,      \* conf->zones, the list the loader threads pop from
    zone,       \* heap of zone_t
    cont,       \* heap of knot_zone_contents_t
    db,         \* heap of knot_zonedb_t
    nsZoneDb,   \* ns->zone_db, the live database reference
    co,         \* the thread running zones_update_db_from_config and its caller
    wk,         \* the loader threads
    lock,       \* ctx->lock: NULL or the loader thread holding it
    rd,         \* the lock-free readers
    gen,        \* number of the reload cycle
    pre,        \* the old generation as it was when the cycle started
    outcome,    \* configuration entry -> what the cycle did with it
    collided,   \* an insertion into the new database hit an existing name
    crashed,    \* "no", or the function in which an invalid memory access killed the process
    uaf,        \* a reader dereferenced released memory
    wire        \* a buffer of wire-format data with the value written and read

vars == <<files, fchanges, conf, queue, zone, cont, db, nsZoneDb, co, wk,
          lock, rd, gen, pre, outcome, collided, crashed, uaf, wire>>

(* ------------------------------------------------------------------ *)
(* Heap objects                                                        *)
(* ------------------------------------------------------------------ *)

\* zone_t: name, contents, zonefile_mtime, zonefile_serial, the timers; src
\* remembers the modification time of the file the contents were parsed from,
\* busy that a transfer or update of the zone is in flight.
NoZone == [st |-> "unalloc", name |-> NoName, contents |-> NULL,
           mtime |-> 0, serial |-> 0, timer |-> FALSE, src |-> NoFile,
           busy |-> FALSE]
FreedZone == [NoZone EXCEPT !.st = "freed"]
NoCont == [st |-> "unalloc", zone |-> NULL, serial |-> 0]
FreedCont == [NoCont EXCEPT !.st = "freed"]
EmptyMap == [n \in Names |-> NULL]
NoDb == [st |-> "unalloc", map |-> EmptyMap, indexed |-> FALSE]
FreedDb == [NoDb EXCEPT !.st = "freed"]
NoConf == [name |-> NoName, xfr_in |-> FALSE, idx |-> 0]

\* The address malloc gives the zone (and the contents) built in cycle g for
\* configuration entry i: fresh, distinct from every object of another cycle
\* or entry.
NewId(g, i) == g * MaxConf + i

\* A pointer to contents that can be dereferenced.
ValidCont(cs, c) == c # NULL /\ cs[c].st = "live"

\* zone_new(conf): a zeroed zone_t carrying the configured name.
ZoneNew(name) == [NoZone EXCEPT !.st = "live", !.name = name]

\* zone_deep_free(&z): releases z->contents, if any, and z.
ContsAfterDeepFree(zs, cs, z) ==
    IF zs[z].contents # NULL
    THEN [cs EXCEPT ![zs[z].contents] = FreedCont]
    ELSE cs

ZonesAfterDeepFree(zs, z) == [zs EXCEPT ![z] = FreedZone]

\* conf->zones_count
ZonesCount == Len(conf)

\* knot_zonedb_size
KnotZonedbSize(d) == Cardinality({n \in Names : d.map[n] # NULL})

(* ------------------------------------------------------------------ *)
(* Wire-format helpers (dnslib/utils.h)                                *)
(* ------------------------------------------------------------------ *)

\* A 32-bit register is kept as its two 16-bit halves <<high, low>>, so that
\* no intermediate value leaves the range of TLC's integers.
Word(hi, lo) == <<hi, lo>>
ByteWord(x) == Word(0, x)

\* No wire-format data is being handled.
NoWire == [pc |-> "none", bits |-> 0, data |-> Word(0, 0), buf |-> <<>>,
           out |-> Word(0, 0)]

\* a | b and a & b on non-negative integers, and on registers.
RECURSIVE BitOr(_, _)
BitOr(a, b) ==
    IF a = 0 THEN b
    ELSE IF b = 0 THEN a
    ELSE (IF a % 2 = 1 \/ b % 2 = 1 THEN 1 ELSE 0) + 2 * BitOr(a \div 2, b \div 2)

RECURSIVE BitAnd(_, _)
BitAnd(a, b) ==
    IF a = 0 \/ b = 0 THEN 0
    ELSE (IF a % 2 = 1 /\ b % 2 = 1 THEN 1 ELSE 0) + 2 * BitAnd(a \div 2, b \div 2)

WordOr(v, w) == Word(BitOr(v[1], w[1]), BitOr(v[2], w[2]))
WordAnd(v, w) == Word(BitAnd(v[1], w[1]), BitAnd(v[2], w[2]))

\* w >> n for n < 32, and the conversion of a register to uintN_t.
Shr(w, n) ==
    IF n >= 16 THEN Word(0, w[1] \div (2 ^ (n - 16)))
    ELSE Word(w[1] \div (2 ^ n), (w[1] % (2 ^ n)) * (2 ^ (16 - n)) + w[2] \div (2 ^ n))
ToUint(w, n) ==
    IF n >= 16 THEN Word(w[1] % (2 ^ (n - 16)), w[2]) ELSE Word(0, w[2] % (2 ^ n))

\* x << n of a byte x promoted to int: a set bit shifted into or past the sign
\* bit of int is undefined.
IntBits == 32
ShlUndefined(x, n) == x >= 2 ^ (IntBits - 1 - n)
\* The bits the shift leaves in a 32-bit register.
Shl(x, n) ==
    IF n >= 16 THEN Word((x * (2 ^ (n - 16))) % (2 ^ 16), 0)
    ELSE Word((x * (2 ^ n)) \div (2 ^ 16), (x * (2 ^ n)) % (2 ^ 16))

\* knot_wire_read_u16(pos) and knot_wire_read_u32(pos); pos is the sequence of
\* bytes at the position.
KnotWireReadU16(pos) == ToUint(WordOr(Shl(pos[1], 8), ByteWord(pos[2])), 16)
KnotWireReadU32(pos) ==
    ToUint(WordOr(WordOr(WordOr(Shl(pos[1], 24), Shl(pos[2], 16)), Shl(pos[3], 8)),
                  ByteWord(pos[4])), 32)
\* pos[0] << 24 overflows int when the top bit of pos[0] is set.
KnotWireReadU32Undefined(pos) == ShlUndefined(pos[1], 24)

\* knot_wire_write_u16(pos, data) and knot_wire_write_u32(pos, data): the bytes
\* stored at the position.
Uint8(w) == ToUint(w, 8)[2]
KnotWireWriteU16(data) ==
    <<Uint8(WordAnd(Shr(data, 8), ByteWord(255))), Uint8(WordAnd(data, ByteWord(255)))>>
KnotWireWriteU32(data) ==
    <<Uint8(WordAnd(Shr(data, 24), ByteWord(255))),
      Uint8(WordAnd(Shr(data, 16), ByteWord(255))),
      Uint8(WordAnd(Shr(data, 8), ByteWord(255))),
      Uint8(WordAnd(data, ByteWord(255)))>>

(* ------------------------------------------------------------------ *)
(* RCU                                                                 *)
(* ------------------------------------------------------------------ *)

\* The threads inside an RCU read-side critical section.
RcuHolders ==
    {r \in Readers : rd[r].pc # "idle"}
      \cup (IF co.rcu THEN {"coord"} ELSE {})

(* ------------------------------------------------------------------ *)
(* Initial states                                                      *)
(* ------------------------------------------------------------------ *)

InitWorker == [pc |-> "off", conf |-> NoConf, old |-> NULL, new |-> NULL,
               status |-> NoStatus, res |-> "ERROR", nc |-> FALSE, wait |-> {},
               parsed |-> NoName, statres |-> {}, sched |-> FALSE,
               nomem |-> FALSE, sres |-> NoResult, nres |-> NoResult,
               warned |-> FALSE, zl |-> FALSE, dname_req |-> FALSE]
InitReader == [pc |-> "idle", db |-> NULL, z |-> NULL, c |-> NULL]
InitCo == [pc |-> "entry", db_new |-> NULL, db_old |-> NULL, ret |-> "-",
           loaded |-> 0, wait |-> {}, swaps |-> 0, rcu |-> FALSE]

ConfEntry(n, x, i) == [name |-> n, xfr_in |-> x, idx |-> i]
ConfNames(q) == {q[i].name : i \in 1..Len(q)}

\* The SOA serial in a zone file: a file that is rewritten (another
\* modification time) carries another serial.
FileSerial(m) == m + 1

\* The forms a zone of the live database takes when a reload starts: absent
\* ("none"), a bootstrapped placeholder without contents ("empty"), or a zone
\* with contents whose recorded zone file time is m (a zone that recorded
\* time 0 behaves as one that recorded another time and meets a file of time 0
\* does, so the recorded times start above 0).
OldKinds == {<<"none", 0>>, <<"empty", 0>>} \cup {<<"full", m>> : m \in Mtimes \ {0}}

\* What a reload meets for one name: the old zone, the zone file, and whether
\* the configuration lists a transfer-in source.
Form(k, f, x) == [kind |-> k, file |-> f, xfr_in |-> x]
AllForms == {Form(k, f, x) : k \in OldKinds, f \in FileStates, x \in BOOLEAN}
\* One form for each status the classifier gives.
StatusForms ==
    {Form(<<"empty", 0>>, NoFile, TRUE), Form(<<"none", 0>>, 1, TRUE),
     Form(<<"full", 1>>, 1, TRUE), Form(<<"full", 1>>, 0, TRUE)}
\* A zone with contents whose file has the recorded time.
PresentForms == {Form(<<"full", 1>>, 1, TRUE)}
\* A name outside the configuration: its file is never looked at.
UnconfiguredForms == {Form(k, NoFile, FALSE) : k \in OldKinds}

OldIdx(n) == IF n = "a" THEN 1 ELSE 2
OldName(z) == IF z = 1 THEN "a" ELSE "b"

OldZone(n, k) ==
    IF k[1] = "none" THEN NoZone
    ELSE IF k[1] = "empty" THEN [ZoneNew(n) EXCEPT !.timer = TRUE]
    ELSE [ZoneNew(n) EXCEPT !.contents = OldIdx(n), !.mtime = k[2],
                            !.serial = FileSerial(k[2]), !.timer = TRUE,
                            !.src = k[2]]

OldCont(n, k) ==
    IF k[1] = "full"
    THEN [st |-> "live", zone |-> OldIdx(n), serial |-> FileSerial(k[2])]
    ELSE NoCont

\* The state of the server when zones_update_db_from_config is called with
\* configuration c, the names meeting the forms fm.
InitReload(c, fm) ==
    /\ conf = c
    /\ queue = c
    /\ files = [n \in Names |-> fm[n].file]
    /\ fchanges = 0
    /\ zone = [z \in ZoneIds |->
                 IF z <= Cardinality(Names)
                 THEN OldZone(OldName(z), fm[OldName(z)].kind) ELSE NoZone]
    /\ cont = [c2 \in ZoneIds |->
                 IF c2 <= Cardinality(Names)
                 THEN OldCont(OldName(c2), fm[OldName(c2)].kind) ELSE NoCont]
    /\ db = [d \in DbIds |->
               IF d = 1
               THEN [st |-> "live", indexed |-> TRUE,
                     map |-> [n \in Names |->
                                IF fm[n].kind[1] = "none" THEN NULL ELSE OldIdx(n)]]
               ELSE NoDb]
    /\ nsZoneDb = 1
    /\ co = InitCo
    /\ wk = [w \in Workers |-> InitWorker]
    /\ lock = NULL
    /\ rd = [r \in Readers |-> InitReader]
    /\ gen = 1
    /\ pre = [live |-> 1, zone |-> zone, cont |-> cont, db |-> db[1]]
    /\ outcome = [i \in 1..MaxConf |-> "none"]
    /\ collided = FALSE
    /\ crashed = "no"
    /\ uaf = FALSE
    /\ wire = NoWire

\* The configurations name each zone once: none, "a", or "a" and "b". A zone
\* configured alone meets every form; of two configured zones each meets one
\* form for each status.
Init ==
    \E k \in 0..2 :
      \E fa \in (CASE k = 0 -> UnconfiguredForms [] k = 1 -> AllForms
                    [] OTHER -> StatusForms),
         fb \in (IF k = 2 THEN StatusForms ELSE UnconfiguredForms) :
           InitReload(SubSeq(<<ConfEntry("a", fa.xfr_in, 1), ConfEntry("b", fb.xfr_in, 2)>>,
                             1, k),
                      [n \in Names |-> IF n = "a" THEN fa ELSE fb])

(* ------------------------------------------------------------------ *)
(* zone_loader_thread: one loader thread                               *)
(* ------------------------------------------------------------------ *)

\* The process is alive.
Running == crashed = "no"

\* An invalid memory access in function f is undefined: the process dies
\* there or runs on.
Undefined(ub, f) == crashed' \in (IF ub THEN {"no", f} ELSE {"no"})

\* pthread_mutex_lock(&ctx->lock) before the pop.
Lock1(w) ==
    /\ Running /\ wk[w].pc = "lock1" /\ lock = NULL
    /\ lock' = w
    /\ wk' = [wk EXCEPT ![w].pc = "pop"]
    /\ UNCHANGED <<files, fchanges, conf, queue, zone, cont, db, nsZoneDb, co, rd,
                   gen, pre, outcome, collided, crashed, uaf>>
    /\ UNCHANGED wire

\* EMPTY_LIST / HEAD / rem_node, then pthread_mutex_unlock.
Pop(w) ==
    /\ Running /\ wk[w].pc = "pop"
    /\ lock' = NULL
    /\ IF queue = <<>>
       THEN /\ wk' = [wk EXCEPT ![w].pc = "exit", ![w].res = "EOK"]
            /\ queue' = queue
       ELSE /\ wk' = [wk EXCEPT ![w].pc = "apex", ![w].conf = Head(queue)]
            /\ queue' = Tail(queue)
    /\ UNCHANGED <<files, fchanges, conf, zone, cont, db, nsZoneDb, co, rd,
                   gen, pre, outcome, collided, crashed, uaf>>
    /\ UNCHANGED wire

\* knot_dname_from_str (return KNOT_ENOMEM when it fails), knot_zonedb_find in
\* ns->zone_db, knot_dname_free.
Apex(w) ==
    /\ Running /\ wk[w].pc = "apex"
    /\ \E ok \in BOOLEAN :
         wk' = [wk EXCEPT ![w] =
                  IF ok
                  THEN [@ EXCEPT !.pc = "freeze",
                                 !.old = db[nsZoneDb].map[wk[w].conf.name]]
                  ELSE [@ EXCEPT !.pc = "exit", !.res = "ENOMEM"]]
    /\ UNCHANGED <<files, fchanges, conf, queue, zone, cont, db, nsZoneDb, co, lock,
                   rd, gen, pre, outcome, collided, crashed, uaf>>
    /\ UNCHANGED wire

\* zone_freeze up to synchronize_rcu(), which waits for the read-side critical
\* sections that are open when it is called.
Freeze(w) ==
    /\ Running /\ wk[w].pc = "freeze"
    /\ wk' = [wk EXCEPT ![w] =
                IF wk[w].old = NULL
                THEN [@ EXCEPT !.pc = "status"]
                ELSE [@ EXCEPT !.pc = "sync", !.wait = RcuHolders]]
    /\ UNCHANGED <<files, fchanges, conf, queue, zone, cont, db, nsZoneDb, co, lock,
                   rd, gen, pre, outcome, collided, crashed, uaf>>
    /\ UNCHANGED wire

\* zone_freeze after the grace period: zone_reset_timers on the old zone.
FreezeSync(w) ==
    /\ Running /\ wk[w].pc = "sync" /\ wk[w].wait = {}
    /\ zone' = [zone EXCEPT ![wk[w].old].timer = FALSE]
    /\ wk' = [wk EXCEPT ![w].pc = "status"]
    /\ UNCHANGED <<files, fchanges, conf, queue, cont, db, nsZoneDb, co, lock,
                   rd, gen, pre, outcome, collided, crashed, uaf>>
    /\ UNCHANGED wire

\* A classifier that looks at the old zone before it looks at the file.
ZoneFileStatusOldFirst(old_zone, st) ==
    IF old_zone = NULL THEN ZONE_STATUS_FOUND_NEW
    ELSE IF st = NoFile THEN ZONE_STATUS_NOT_FOUND
    ELSE IF zone[old_zone].mtime = st THEN ZONE_STATUS_FOUND_CURRENT
    ELSE ZONE_STATUS_FOUND_UPDATED

\* zone_file_status(old_zone, filename), st the result of stat().
ZoneFileStatus(old_zone, st) ==
    IF st = NoFile THEN ZONE_STATUS_NOT_FOUND
    ELSE IF old_zone = NULL THEN ZONE_STATUS_FOUND_NEW
    ELSE IF zone[old_zone].mtime = st THEN ZONE_STATUS_FOUND_CURRENT
    ELSE ZONE_STATUS_FOUND_UPDATED

\* create_zone: zstatus = zone_file_status(old_zone, conf->file).
Status(w) ==
    /\ Running /\ wk[w].pc = "status"
    /\ wk' = [wk EXCEPT ![w].pc = "build",
                        ![w].status = ZoneFileStatus(wk[w].old, files[wk[w].conf.name])]
    /\ UNCHANGED <<files, fchanges, conf, queue, zone, cont, db, nsZoneDb, co, lock,
                   rd, gen, pre, outcome, collided, crashed, uaf>>
    /\ UNCHANGED wire

\* create_zone found no zone: update_zone returns KNOT_EZONENOENT.
CreateFailed(r) == [r EXCEPT !.pc = "lock2", !.new = NULL, !.res = "EZONENOENT"]

\* update_zone: new_content, computed from the zone create_zone returned.
NewContent(zs, old_zone, new_zone) ==
    old_zone = NULL \/ zs[old_zone].contents # zs[new_zone].contents

\* create_zone returned new_zone: update_zone goes on to the journal.
Created(r, zs, new_zone) ==
    [r EXCEPT !.pc = "journal", !.new = new_zone,
              !.nc = NewContent(zs, r.old, new_zone)]

\* bootstrap_zone that does not look at the transfer-in sources.
BootstrapZoneAlways(w) ==
    /\ Running /\ wk[w].pc = "build" /\ wk[w].status = ZONE_STATUS_NOT_FOUND
    /\ \E ok \in BOOLEAN :
         LET id == NewId(gen, wk[w].conf.idx)
             zs == [zone EXCEPT ![id] = ZoneNew(wk[w].conf.name)]
         IN  IF ok
             THEN /\ zone' = zs
                  /\ wk' = [wk EXCEPT ![w] = Created(@, zs, id)]
             ELSE /\ zone' = zone
                  /\ wk' = [wk EXCEPT ![w] = [CreateFailed(@) EXCEPT !.nomem = TRUE]]
    /\ UNCHANGED <<files, fchanges, conf, queue, cont, db, nsZoneDb, co, lock,
                   rd, gen, pre, outcome, collided, crashed, uaf>>
    /\ UNCHANGED wire

\* bootstrap_zone: a zone without contents when a transfer-in source is
\* configured and zone_new succeeds.
BootstrapZone(w) ==
    /\ Running /\ wk[w].pc = "build" /\ wk[w].status = ZONE_STATUS_NOT_FOUND
    /\ \E ok \in BOOLEAN :
         LET id == NewId(gen, wk[w].conf.idx)
             zs == [zone EXCEPT ![id] = ZoneNew(wk[w].conf.name)]
         IN  IF wk[w].conf.xfr_in /\ ok
             THEN /\ zone' = zs
                  /\ wk' = [wk EXCEPT ![w] = Created(@, zs, id)]
             ELSE /\ zone' = zone
                  /\ wk' = [wk EXCEPT ![w] =
                             [CreateFailed(@) EXCEPT !.nomem = wk[w].conf.xfr_in]]
    /\ UNCHANGED <<files, fchanges, conf, queue, cont, db, nsZoneDb, co, lock,
                   rd, gen, pre, outcome, collided, crashed, uaf>>
    /\ UNCHANGED wire

\* What knot_zload_open and knot_zload_load give: no zone (NoName), or a zone
\* whose name is the apex found in the file.
ParseResults == Names \cup {NoName}

\* load_zone without the origin check: whatever zone the file holds is kept.
LoadZoneNoOriginCheck(w) ==
    /\ Running /\ wk[w].pc = "build"
    /\ wk[w].status \in {ZONE_STATUS_FOUND_NEW, ZONE_STATUS_FOUND_UPDATED}
    /\ \E p \in ParseResults :
         LET id == NewId(gen, wk[w].conf.idx)
             n  == wk[w].conf.name
             s  == FileSerial(files[n])
         IN  IF p = NoName \/ files[n] = NoFile
             THEN /\ zone' = zone /\ cont' = cont
                  /\ wk' = [wk EXCEPT ![w] = CreateFailed(@)]
             ELSE /\ zone' = [zone EXCEPT ![id] =
                                [ZoneNew(p) EXCEPT !.contents = id, !.src = files[n]]]
                  /\ cont' = [cont EXCEPT ![id] =
                                [st |-> "live", zone |-> id, serial |-> s]]
                  /\ wk' = [wk EXCEPT ![w].pc = "stat", ![w].new = id, ![w].parsed = p,
                                      ![w].zl = TRUE, ![w].dname_req = TRUE]
    /\ UNCHANGED <<files, fchanges, conf, queue, db, nsZoneDb, co, lock,
                   rd, gen, pre, outcome, collided, crashed, uaf>>
    /\ UNCHANGED wire

\* load_zone up to the origin check: open, parse, compare the parsed apex with
\* the configured name; a mismatching zone is released at once. zl is the zone
\* loader knot_zload_open gave, closed when the open or the parse fails;
\* dname_req the name knot_dname_from_str made for the comparison.
LoadZone(w) ==
    /\ Running /\ wk[w].pc = "build"
    /\ wk[w].status \in {ZONE_STATUS_FOUND_NEW, ZONE_STATUS_FOUND_UPDATED}
    /\ \E p \in ParseResults :
         LET id == NewId(gen, wk[w].conf.idx)
             n  == wk[w].conf.name
             s  == FileSerial(files[n])
         IN  IF p = NoName \/ files[n] = NoFile
             THEN /\ zone' = zone /\ cont' = cont
                  /\ wk' = [wk EXCEPT ![w] = CreateFailed(@)]
             ELSE IF p # n
             THEN /\ zone' = [zone EXCEPT ![id] = FreedZone]
                  /\ cont' = [cont EXCEPT ![id] = FreedCont]
                  /\ wk' = [wk EXCEPT ![w] =
                             [CreateFailed(@) EXCEPT !.parsed = p, !.zl = TRUE,
                                                     !.dname_req = TRUE]]
             ELSE /\ zone' = [zone EXCEPT ![id] =
                                [ZoneNew(p) EXCEPT !.contents = id, !.src = files[n]]]
                  /\ cont' = [cont EXCEPT ![id] =
                                [st |-> "live", zone |-> id, serial |-> s]]
                  /\ wk' = [wk EXCEPT ![w].pc = "stat", ![w].new = id, ![w].parsed = p,
                                      ![w].zl = TRUE, ![w].dname_req = TRUE]
    /\ UNCHANGED <<files, fchanges, conf, queue, db, nsZoneDb, co, lock,
                   rd, gen, pre, outcome, collided, crashed, uaf>>
    /\ UNCHANGED wire

\* load_zone after the origin check: stat the file again; record its
\* modification time and the serial of the contents, then knot_dname_free and
\* knot_zload_close; or release the zone and return.
LoadZoneStat(w) ==
    /\ Running /\ wk[w].pc = "stat"
    /\ LET id == wk[w].new
           st == files[wk[w].conf.name]
           zs == [zone EXCEPT ![id].mtime = st,
                              ![id].serial = cont[zone[id].contents].serial]
       IN  IF st = NoFile
           THEN /\ zone' = ZonesAfterDeepFree(zone, id)
                /\ cont' = ContsAfterDeepFree(zone, cont, id)
                /\ wk' = [wk EXCEPT ![w] = [CreateFailed(@) EXCEPT !.statres = {st}]]
           ELSE /\ zone' = zs
                /\ cont' = cont
                /\ wk' = [wk EXCEPT ![w] =
                           [Created(@, zs, id) EXCEPT !.statres = {st}, !.zl = FALSE,
                                                      !.dname_req = FALSE]]
    /\ UNCHANGED <<files, fchanges, conf, queue, db, nsZoneDb, co, lock,
                   rd, gen, pre, outcome, collided, crashed, uaf>>
    /\ UNCHANGED wire

\* preserve_zone: a new zone_t that takes the contents of the old zone;
\* new_zone->contents->zone = new_zone writes through the contents pointer.
PreserveZone(w) ==
    /\ Running /\ wk[w].pc = "build" /\ wk[w].status = ZONE_STATUS_FOUND_CURRENT
    /\ \E ok \in BOOLEAN :
         LET id == NewId(gen, wk[w].conf.idx)
             c  == zone[wk[w].old].contents
             zs == [zone EXCEPT ![id] =
                      [ZoneNew(wk[w].conf.name) EXCEPT !.contents = c,
                                                       !.src = zone[wk[w].old].src]]
         IN  IF ok
             THEN /\ zone' = zs
                  /\ cont' = IF ValidCont(cont, c)
                             THEN [cont EXCEPT ![c].zone = id] ELSE cont
                  /\ Undefined(~ValidCont(cont, c), "preserve_zone")
                  /\ wk' = [wk EXCEPT ![w] = Created(@, zs, id)]
             ELSE /\ zone' = zone /\ cont' = cont /\ crashed' = crashed
                  /\ wk' = [wk EXCEPT ![w] = [CreateFailed(@) EXCEPT !.nomem = TRUE]]
    /\ UNCHANGED <<files, fchanges, conf, queue, db, nsZoneDb, co, lock,
                   rd, gen, pre, outcome, collided, uaf>>
    /\ UNCHANGED wire

(* ------------------------------------------------------------------ *)
(* update_zone after create_zone                                       *)
(* ------------------------------------------------------------------ *)

\* result = zones_journal_apply(new_zone); KNOT_EOK, KNOT_ERANGE and
\* KNOT_ENOENT let the update go on.
JournalApply(w) ==
    /\ Running /\ wk[w].pc = "journal"
    /\ \E r \in JournalResults :
         wk' = [wk EXCEPT ![w].res = r,
                          ![w].pc = IF r \in {"EOK", "ERANGE", "ENOENT"}
                                    THEN "sign" ELSE "fail"]
    /\ UNCHANGED <<files, fchanges, conf, queue, zone, cont, db, nsZoneDb, co, lock,
                   rd, gen, pre, outcome, collided, crashed, uaf>>
    /\ UNCHANGED wire

\* result = zones_do_diff_and_sign(conf, new_zone, ns, new_content).
DiffAndSign(w) ==
    /\ Running /\ wk[w].pc = "sign"
    /\ \E r \in CallResults :
         wk' = [wk EXCEPT ![w].res = r, ![w].sres = r,
                          ![w].pc = IF r = "EOK" THEN "sched" ELSE "fail"]
    /\ UNCHANGED <<files, fchanges, conf, queue, zone, cont, db, nsZoneDb, co, lock,
                   rd, gen, pre, outcome, collided, crashed, uaf>>
    /\ UNCHANGED wire

\* zones_schedule_ixfr_sync(new_zone, conf->dbsync_timeout).
ScheduleIxfrSync(w) ==
    /\ Running /\ wk[w].pc = "sched"
    /\ zone' = [zone EXCEPT ![wk[w].new].timer = TRUE]
    /\ wk' = [wk EXCEPT ![w].pc = "nsec3", ![w].sched = TRUE]
    /\ UNCHANGED <<files, fchanges, conf, queue, cont, db, nsZoneDb, co, lock,
                   rd, gen, pre, outcome, collided, crashed, uaf>>
    /\ UNCHANGED wire

\* The check of the EDNS payload that makes a failure of the update out of
\* the warning.
LoadNsec3paramEdnsFatal(w) ==
    /\ Running /\ wk[w].pc = "nsec3"
    /\ LET c == zone[wk[w].new].contents
       IN  /\ \E r \in CallResults, signed \in BOOLEAN, low \in BOOLEAN :
                LET warn == c # NULL /\ r = "EOK" /\ signed /\ low
                IN  wk' = [wk EXCEPT ![w].pc = "fail",
                                     ![w].res = IF warn THEN "ERROR"
                                                ELSE IF c # NULL THEN r ELSE @,
                                     ![w].nres = IF c # NULL THEN r ELSE @,
                                     ![w].warned = warn]
           /\ Undefined(c # NULL /\ ~ValidCont(cont, c), "load_nsec3param")
    /\ UNCHANGED <<files, fchanges, conf, queue, zone, cont, db, nsZoneDb, co, lock,
                   rd, gen, pre, outcome, collided, uaf>>
    /\ UNCHANGED wire

\* if (new_contents) result = knot_zone_contents_load_nsec3param(new_contents);
\* then, for signed contents (knot_zone_contents_is_signed) and an EDNS payload
\* below EDNS_MIN_DNSSEC_PAYLOAD (low), log_zone_warning and nothing else.
LoadNsec3param(w) ==
    /\ Running /\ wk[w].pc = "nsec3"
    /\ LET c == zone[wk[w].new].contents
       IN  /\ \E r \in CallResults, signed \in BOOLEAN, low \in BOOLEAN :
                wk' = [wk EXCEPT ![w].pc = "fail",
                                 ![w].res = IF c # NULL THEN r ELSE @,
                                 ![w].nres = IF c # NULL THEN r ELSE @,
                                 ![w].warned = c # NULL /\ r = "EOK" /\ signed /\ low]
           /\ Undefined(c # NULL /\ ~ValidCont(cont, c), "load_nsec3param")
    /\ UNCHANGED <<files, fchanges, conf, queue, zone, cont, db, nsZoneDb, co, lock,
                   rd, gen, pre, outcome, collided, uaf>>
    /\ UNCHANGED wire

\* "recycled zone content (bind back to old zone)":
\* old_zone->contents->zone = old_zone; new_zone->contents = NULL.
ZonesAfterBindBack(zs, new_zone) == [zs EXCEPT ![new_zone].contents = NULL]

ContsAfterBindBack(zs, cs, old_zone) ==
    IF ValidCont(cs, zs[old_zone].contents)
    THEN [cs EXCEPT ![zs[old_zone].contents].zone = old_zone]
    ELSE cs

\* update_zone returns: of the results of its steps only result is left.
Returned(r) ==
    [r EXCEPT !.sres = NoResult, !.nres = NoResult, !.warned = FALSE]

\* A rollback that releases the new zone without binding the recycled
\* contents back.
UpdateZoneEndNoBindBack(w) ==
    /\ Running /\ wk[w].pc = "fail"
    /\ LET n == wk[w].new
       IN  IF wk[w].res = "EOK"
           THEN /\ zone' = zone /\ cont' = cont
                /\ wk' = [wk EXCEPT ![w] = [Returned(@) EXCEPT !.pc = "lock2"]]
           ELSE /\ zone' = ZonesAfterDeepFree(zone, n)
                /\ cont' = ContsAfterDeepFree(zone, cont, n)
                /\ wk' = [wk EXCEPT ![w] =
                             [Returned(@) EXCEPT !.pc = "lock2", !.new = NULL]]
    /\ UNCHANGED <<files, fchanges, conf, queue, db, nsZoneDb, co, lock,
                   rd, gen, pre, outcome, collided, crashed, uaf>>
    /\ UNCHANGED wire

\* The label fail of update_zone: *dst = new_zone when result is KNOT_EOK;
\* otherwise bind recycled contents back and zone_deep_free(&new_zone).
UpdateZoneEnd(w) ==
    /\ Running /\ wk[w].pc = "fail"
    /\ LET o  == wk[w].old
           n  == wk[w].new
           zs == IF wk[w].nc THEN zone ELSE ZonesAfterBindBack(zone, n)
           cs == IF wk[w].nc THEN cont ELSE ContsAfterBindBack(zone, cont, o)
       IN  IF wk[w].res = "EOK"
           THEN /\ zone' = zone /\ cont' = cont /\ crashed' = crashed
                /\ wk' = [wk EXCEPT ![w] = [Returned(@) EXCEPT !.pc = "lock2"]]
           ELSE /\ zone' = ZonesAfterDeepFree(zs, n)
                /\ cont' = ContsAfterDeepFree(zs, cs, n)
                /\ Undefined(~wk[w].nc /\ ~ValidCont(cont, zone[o].contents), "update_zone")
                /\ wk' = [wk EXCEPT ![w] =
                             [Returned(@) EXCEPT !.pc = "lock2", !.new = NULL]]
    /\ UNCHANGED <<files, fchanges, conf, queue, db, nsZoneDb, co, lock,
                   rd, gen, pre, outcome, collided, uaf>>
    /\ UNCHANGED wire

(* ------------------------------------------------------------------ *)
(* zone_loader_thread: insertion                                       *)
(* ------------------------------------------------------------------ *)

\* An entry into the insertion that does not wait for the mutex.
Lock2NoMutex(w) ==
    /\ Running /\ wk[w].pc = "lock2"
    /\ lock' = w
    /\ wk' = [wk EXCEPT ![w].pc = "insert"]
    /\ UNCHANGED <<files, fchanges, conf, queue, zone, cont, db, nsZoneDb, co, rd,
                   gen, pre, outcome, collided, crashed, uaf>>
    /\ UNCHANGED wire

\* pthread_mutex_lock(&ctx->lock) before the insertion.
Lock2(w) ==
    /\ Running /\ wk[w].pc = "lock2" /\ lock = NULL
    /\ lock' = w
    /\ wk' = [wk EXCEPT ![w].pc = "insert"]
    /\ UNCHANGED <<files, fchanges, conf, queue, zone, cont, db, nsZoneDb, co, rd,
                   gen, pre, outcome, collided, crashed, uaf>>
    /\ UNCHANGED wire

\* knot_zonedb_insert succeeds unless the database holds a zone of that name.
KnotZonedbInsertOk(d, name) == d.map[name] = NULL

\* The word log_zone_load_info logs for a zone that was built.
LoadAction(status) ==
    CASE status = ZONE_STATUS_NOT_FOUND -> "bootstrapped"
      [] status = ZONE_STATUS_FOUND_NEW -> "loaded"
      [] status = ZONE_STATUS_FOUND_CURRENT -> "is up-to-date"
      [] OTHER -> "reloaded"

\* An insertion that replaces the zone the database holds under the name.
InsertOverwrite(w) ==
    /\ Running /\ wk[w].pc = "insert"
    /\ LET n == wk[w].new
           d == co.db_new
           i == wk[w].conf.idx
       IN  IF wk[w].res # "EOK"
           THEN /\ outcome' = [outcome EXCEPT ![i] = "failed"]
                /\ UNCHANGED <<db, collided>>
           ELSE /\ db' = [db EXCEPT ![d].map[zone[n].name] = n]
                /\ outcome' = [outcome EXCEPT ![i] = LoadAction(wk[w].status)]
                /\ collided' = (collided \/ ~KnotZonedbInsertOk(db[d], zone[n].name))
    /\ lock' = NULL
    /\ wk' = [wk EXCEPT ![w] = [InitWorker EXCEPT !.pc = "lock1"]]
    /\ UNCHANGED <<files, fchanges, conf, queue, zone, cont, nsZoneDb, co, rd, gen,
                   pre, crashed, uaf>>
    /\ UNCHANGED wire

\* The rest of the loop body: insert the zone when update_zone returned
\* KNOT_EOK (a failed insertion binds recycled contents back and releases the
\* zone), else conf_free_zone; then pthread_mutex_unlock.
Insert(w) ==
    /\ Running /\ wk[w].pc = "insert"
    /\ LET o    == wk[w].old
           n    == wk[w].new
           d    == co.db_new
           i    == wk[w].conf.idx
           same == o # NULL /\ zone[o].contents = zone[n].contents
           zs   == IF same THEN ZonesAfterBindBack(zone, n) ELSE zone
           cs   == IF same THEN ContsAfterBindBack(zone, cont, o) ELSE cont
       IN  IF wk[w].res # "EOK"
           THEN /\ outcome' = [outcome EXCEPT ![i] = "failed"]
                /\ UNCHANGED <<zone, cont, db, collided, crashed>>
           ELSE IF KnotZonedbInsertOk(db[d], zone[n].name)
           THEN /\ db' = [db EXCEPT ![d].map[zone[n].name] = n]
                /\ outcome' = [outcome EXCEPT ![i] = LoadAction(wk[w].status)]
                /\ UNCHANGED <<zone, cont, collided, crashed>>
           ELSE /\ zone' = ZonesAfterDeepFree(zs, n)
                /\ cont' = ContsAfterDeepFree(zs, cs, n)
                /\ Undefined(same /\ ~ValidCont(cont, zone[o].contents), "zone_loader_thread")
                /\ collided' = TRUE
                /\ outcome' = [outcome EXCEPT ![i] = "failed"]
                /\ db' = db
    /\ lock' = NULL
    /\ wk' = [wk EXCEPT ![w] = [InitWorker EXCEPT !.pc = "lock1"]]
    /\ UNCHANGED <<files, fchanges, conf, queue, nsZoneDb, co, rd, gen, pre, uaf>>
    /\ UNCHANGED wire

WorkerStep(w) ==
    \/ Lock1(w) \/ Pop(w) \/ Apex(w) \/ Freeze(w) \/ FreezeSync(w) \/ Status(w)
    \/ BootstrapZone(w) \/ LoadZone(w) \/ LoadZoneStat(w) \/ PreserveZone(w)
    \/ JournalApply(w) \/ DiffAndSign(w) \/ ScheduleIxfrSync(w) \/ LoadNsec3param(w)
    \/ UpdateZoneEnd(w) \/ Lock2(w) \/ Insert(w)

(* ------------------------------------------------------------------ *)
(* load_zonedb and zones_update_db_from_config                         *)
(* ------------------------------------------------------------------ *)

\* The database the cycle builds.
DbNewId == gen + 1

\* MIN(conf->zones_count, dt_optimal_size())
ThreadCount == IF ZonesCount < DtOptimalSize THEN ZonesCount ELSE DtOptimalSize

\* Every loader thread of the unit has returned.
AllJoined == \A w \in Workers : wk[w].pc \in {"off", "exit"}

\* load_zonedb returned NULL: zones_update_db_from_config returns KNOT_ENOMEM.
LoadFailed(c) == [c EXCEPT !.pc = "returned", !.db_new = NULL, !.ret = "ENOMEM"]

\* The arguments the caller passes: valid ones, or a NULL conf or ns.
Arguments == {"valid", "null"}

\* zones_update_db_from_config, "Check parameters": KNOT_EINVAL for a NULL conf
\* or ns, KNOT_ENOENT when the server has no zone database.
CheckParameters ==
    /\ Running /\ co.pc = "entry"
    /\ \E a \in Arguments :
         co' = IF a = "null" THEN [co EXCEPT !.pc = "returned", !.ret = "EINVAL"]
               ELSE IF nsZoneDb = NULL
               THEN [co EXCEPT !.pc = "returned", !.ret = "ENOENT"]
               ELSE [co EXCEPT !.pc = "call"]
    /\ UNCHANGED <<files, fchanges, conf, queue, zone, cont, db, nsZoneDb, wk, lock,
                   rd, gen, pre, outcome, collided, crashed, uaf>>
    /\ UNCHANGED wire

\* rcu_xchg_pointer followed by *db_old = ns->zone_db: the handle is taken
\* after the exchange.
SwitchDatabasesThenGrab ==
    /\ Running /\ co.pc = "xchg"
    /\ nsZoneDb' = co.db_new
    /\ co' = [co EXCEPT !.pc = "remove", !.swaps = @ + 1, !.db_old = co.db_new]
    /\ UNCHANGED <<files, fchanges, conf, queue, zone, cont, db, wk, lock, rd,
                   gen, pre, outcome, collided, crashed, uaf>>
    /\ UNCHANGED wire

\* ctx.db_new = knot_zonedb_new(conf->zones_count); an empty configuration
\* returns the empty database at once.
KnotZonedbNew ==
    /\ Running /\ co.pc = "call"
    /\ \E ok \in BOOLEAN :
         IF ok
         THEN /\ db' = [db EXCEPT ![DbNewId] =
                          [st |-> "live", map |-> EmptyMap, indexed |-> FALSE]]
              /\ co' = [co EXCEPT !.db_new = DbNewId,
                                  !.pc = IF ZonesCount = 0 THEN "loaded" ELSE "mutex"]
         ELSE /\ db' = db
              /\ co' = LoadFailed(co)
    /\ UNCHANGED <<files, fchanges, conf, queue, zone, cont, nsZoneDb, wk, lock, rd,
                   gen, pre, outcome, collided, crashed, uaf>>
    /\ UNCHANGED wire

\* pthread_mutex_init(&ctx.lock, NULL); on failure the new database is freed.
MutexInit ==
    /\ Running /\ co.pc = "mutex"
    /\ \E ok \in BOOLEAN :
         IF ok
         THEN /\ db' = db
              /\ co' = [co EXCEPT !.pc = "dt_create"]
         ELSE /\ db' = [db EXCEPT ![co.db_new] = FreedDb]
              /\ co' = LoadFailed(co)
    /\ UNCHANGED <<files, fchanges, conf, queue, zone, cont, nsZoneDb, wk, lock, rd,
                   gen, pre, outcome, collided, crashed, uaf>>
    /\ UNCHANGED wire

\* dt_create and dt_start; without a unit the new database is freed.
DtCreate ==
    /\ Running /\ co.pc = "dt_create"
    /\ \E ok \in BOOLEAN :
         IF ok
         THEN /\ db' = db
              /\ co' = [co EXCEPT !.pc = "join"]
              /\ wk' = [w \in Workers |->
                          IF w <= ThreadCount
                          THEN [InitWorker EXCEPT !.pc = "lock1"] ELSE InitWorker]
         ELSE /\ db' = [db EXCEPT ![co.db_new] = FreedDb]
              /\ co' = LoadFailed(co)
              /\ wk' = wk
    /\ UNCHANGED <<files, fchanges, conf, queue, zone, cont, nsZoneDb, lock, rd,
                   gen, pre, outcome, collided, crashed, uaf>>
    /\ UNCHANGED wire

\* dt_join that makes load_zonedb fail when a loader thread returned
\* KNOT_ENOMEM: the new database is freed and NULL is returned.
DtJoinFailing ==
    /\ Running /\ co.pc = "join" /\ AllJoined
    /\ IF \E w \in Workers : wk[w].pc = "exit" /\ wk[w].res = "ENOMEM"
       THEN /\ db' = [db EXCEPT ![co.db_new] = FreedDb]
            /\ co' = LoadFailed(co)
       ELSE /\ db' = db
            /\ co' = [co EXCEPT !.pc = "loaded"]
    /\ UNCHANGED <<files, fchanges, conf, queue, zone, cont, nsZoneDb, wk, lock,
                   rd, gen, pre, outcome, collided, crashed, uaf>>
    /\ UNCHANGED wire

\* dt_join that returns while loader threads are still running.
DtJoinNoWait ==
    /\ Running /\ co.pc = "join"
    /\ co' = [co EXCEPT !.pc = "loaded"]
    /\ UNCHANGED <<files, fchanges, conf, queue, zone, cont, db, nsZoneDb, wk, lock,
                   rd, gen, pre, outcome, collided, crashed, uaf>>
    /\ UNCHANGED wire

\* dt_join, dt_delete, pthread_mutex_destroy: load_zonedb returns ctx.db_new.
DtJoin ==
    /\ Running /\ co.pc = "join" /\ AllJoined
    /\ co' = [co EXCEPT !.pc = "loaded"]
    /\ UNCHANGED <<files, fchanges, conf, queue, zone, cont, db, nsZoneDb, wk, lock,
                   rd, gen, pre, outcome, collided, crashed, uaf>>
    /\ UNCHANGED wire

\* loaded = knot_zonedb_size(db_new), logged with conf->zones_count.
LogLoaded ==
    /\ Running /\ co.pc = "loaded"
    /\ co' = [co EXCEPT !.pc = "rcu_lock", !.loaded = KnotZonedbSize(db[co.db_new])]
    /\ UNCHANGED <<files, fchanges, conf, queue, zone, cont, db, nsZoneDb, wk, lock,
                   rd, gen, pre, outcome, collided, crashed, uaf>>
    /\ UNCHANGED wire

\* rcu_read_lock(); *db_old = ns->zone_db.
RcuReadLock ==
    /\ Running /\ co.pc = "rcu_lock"
    /\ co' = [co EXCEPT !.pc = "index", !.db_old = nsZoneDb, !.rcu = TRUE]
    /\ UNCHANGED <<files, fchanges, conf, queue, zone, cont, db, nsZoneDb, wk, lock,
                   rd, gen, pre, outcome, collided, crashed, uaf>>
    /\ UNCHANGED wire

\* knot_zonedb_build_index(db_new).
BuildIndex ==
    /\ Running /\ co.pc = "index"
    /\ db' = [db EXCEPT ![co.db_new].indexed = TRUE]
    /\ co' = [co EXCEPT !.pc = "xchg"]
    /\ UNCHANGED <<files, fchanges, conf, queue, zone, cont, nsZoneDb, wk, lock, rd,
                   gen, pre, outcome, collided, crashed, uaf>>
    /\ UNCHANGED wire

\* rcu_xchg_pointer(&ns->zone_db, db_new).
SwitchDatabases ==
    /\ Running /\ co.pc = "xchg"
    /\ nsZoneDb' = co.db_new
    /\ co' = [co EXCEPT !.pc = "remove", !.swaps = @ + 1]
    /\ UNCHANGED <<files, fchanges, conf, queue, zone, cont, db, wk, lock, rd,
                   gen, pre, outcome, collided, crashed, uaf>>
    /\ UNCHANGED wire

\* remove_zones(db_new, db_old): for every zone of the new database, the zone
\* of that name in the old database is deleted from it when it is the very
\* same zone_t.
MapAfterRemoveZones(new_map, old_map) ==
    [n \in Names |->
       IF new_map[n] # NULL /\ old_map[n] = new_map[n] THEN NULL ELSE old_map[n]]

RemoveZones ==
    /\ Running /\ co.pc = "remove"
    /\ db' = [db EXCEPT ![co.db_old].map =
                MapAfterRemoveZones(db[co.db_new].map, db[co.db_old].map)]
    /\ co' = [co EXCEPT !.pc = "unlock"]
    /\ UNCHANGED <<files, fchanges, conf, queue, zone, cont, nsZoneDb, wk, lock, rd,
                   gen, pre, outcome, collided, crashed, uaf>>
    /\ UNCHANGED wire

\* A thread leaves its read-side critical section: no grace period waits for
\* it any longer.
WorkersAfterQuiescent(t) == [w \in Workers |-> [wk[w] EXCEPT !.wait = @ \ {t}]]

\* A return that leaves the read-side critical section open.
RcuReadUnlockMissing ==
    /\ Running /\ co.pc = "unlock"
    /\ co' = [co EXCEPT !.pc = "returned", !.ret = "EOK"]
    /\ UNCHANGED <<files, fchanges, conf, queue, zone, cont, db, nsZoneDb, wk, lock,
                   rd, gen, pre, outcome, collided, crashed, uaf>>
    /\ UNCHANGED wire

\* rcu_read_unlock(); return KNOT_EOK.
RcuReadUnlock ==
    /\ Running /\ co.pc = "unlock"
    /\ co' = [co EXCEPT !.pc = "returned", !.ret = "EOK", !.rcu = FALSE]
    /\ wk' = WorkersAfterQuiescent("coord")
    /\ UNCHANGED <<files, fchanges, conf, queue, zone, cont, db, nsZoneDb, lock, rd,
                   gen, pre, outcome, collided, crashed, uaf>>
    /\ UNCHANGED wire

CoordinatorStep ==
    \/ CheckParameters \/ KnotZonedbNew \/ MutexInit \/ DtCreate \/ DtJoin \/ LogLoaded
    \/ RcuReadLock \/ BuildIndex \/ SwitchDatabases \/ RemoveZones \/ RcuReadUnlock

(* ------------------------------------------------------------------ *)
(* The caller: reclamation of the retired database                     *)
(* ------------------------------------------------------------------ *)

\* The zones left in the old database handed back through db_old.
Retired == {db[co.db_old].map[n] : n \in Names} \ {NULL}

\* The grace-period barrier starts once the reload has returned KNOT_EOK.
ReclaimBarrier ==
    /\ Running /\ co.pc = "returned" /\ co.ret = "EOK"
    /\ co' = [co EXCEPT !.pc = "barrier", !.wait = RcuHolders]
    /\ UNCHANGED <<files, fchanges, conf, queue, zone, cont, db, nsZoneDb, wk, lock,
                   rd, gen, pre, outcome, collided, crashed, uaf>>
    /\ UNCHANGED wire

\* After the barrier every retired zone and the contents it references are
\* released, and the old database with them.
ReclaimFree ==
    /\ Running /\ co.pc = "barrier" /\ co.wait = {}
    /\ LET owned == {zone[z].contents : z \in Retired} \ {NULL}
       IN  /\ zone' = [z \in ZoneIds |-> IF z \in Retired THEN FreedZone ELSE zone[z]]
           /\ cont' = [c \in ZoneIds |-> IF c \in owned THEN FreedCont ELSE cont[c]]
           /\ Undefined(\E c \in owned : cont[c].st # "live", "reclaim")
    /\ db' = [db EXCEPT ![co.db_old] = FreedDb]
    /\ co' = [co EXCEPT !.pc = "reclaimed"]
    /\ UNCHANGED <<files, fchanges, conf, queue, nsZoneDb, wk, lock, rd,
                   gen, pre, outcome, collided, uaf>>
    /\ UNCHANGED wire

CallerStep == ReclaimBarrier \/ ReclaimFree

(* ------------------------------------------------------------------ *)
(* Lock-free readers of the live database                              *)
(* ------------------------------------------------------------------ *)

\* rcu_read_lock, read ns->zone_db, look a name up in it.
ReaderLookup(r) ==
    /\ Running /\ rd[r].pc = "idle"
    /\ \E n \in Names :
         rd' = [rd EXCEPT ![r] =
                  [pc |-> IF db[nsZoneDb].map[n] = NULL THEN "end" ELSE "zone",
                   db |-> nsZoneDb, z |-> db[nsZoneDb].map[n], c |-> NULL]]
    /\ UNCHANGED <<files, fchanges, conf, queue, zone, cont, db, nsZoneDb, co, wk,
                   lock, gen, pre, outcome, collided, crashed, uaf>>
    /\ UNCHANGED wire

\* The reader dereferences the zone it found and reads zone->contents.
ReaderZone(r) ==
    /\ Running /\ rd[r].pc = "zone"
    /\ LET z == rd[r].z
           c == IF zone[z].st = "live" THEN zone[z].contents ELSE NULL
       IN  /\ uaf' = (uaf \/ zone[z].st # "live")
           /\ rd' = [rd EXCEPT ![r].c = c,
                               ![r].pc = IF c = NULL THEN "end" ELSE "contents"]
    /\ UNCHANGED <<files, fchanges, conf, queue, zone, cont, db, nsZoneDb, co, wk,
                   lock, gen, pre, outcome, collided, crashed>>
    /\ UNCHANGED wire

\* The reader dereferences the contents.
ReaderContents(r) ==
    /\ Running /\ rd[r].pc = "contents"
    /\ uaf' = (uaf \/ cont[rd[r].c].st # "live")
    /\ rd' = [rd EXCEPT ![r].pc = "end"]
    /\ UNCHANGED <<files, fchanges, conf, queue, zone, cont, db, nsZoneDb, co, wk,
                   lock, gen, pre, outcome, collided, crashed>>
    /\ UNCHANGED wire

\* rcu_read_unlock.
ReaderUnlock(r) ==
    /\ Running /\ rd[r].pc = "end"
    /\ rd' = [rd EXCEPT ![r] = InitReader]
    /\ wk' = WorkersAfterQuiescent(r)
    /\ co' = [co EXCEPT !.wait = @ \ {r}]
    /\ UNCHANGED <<files, fchanges, conf, queue, zone, cont, db, nsZoneDb,
                   lock, gen, pre, outcome, collided, crashed, uaf>>
    /\ UNCHANGED wire

ReaderStep(r) ==
    ReaderLookup(r) \/ ReaderZone(r) \/ ReaderContents(r) \/ ReaderUnlock(r)

(* ------------------------------------------------------------------ *)
(* The environment                                                     *)
(* ------------------------------------------------------------------ *)

\* A zone file is written, created or removed between two looks a loader
\* thread takes at it (a change before the first look is another initial
\* state, one after the last look is never seen).
FileChange ==
    /\ Running /\ fchanges < MaxFileChanges
    /\ \E n \in ConfNames(conf), f \in FileStates :
         /\ \E w \in Workers : wk[w].conf.name = n /\ wk[w].pc \in {"build", "stat"}
         /\ f # files[n]
         /\ files' = [files EXCEPT ![n] = f]
    /\ fchanges' = fchanges + 1
    /\ UNCHANGED <<conf, queue, zone, cont, db, nsZoneDb, co, wk, lock, rd,
                   gen, pre, outcome, collided, crashed, uaf>>
    /\ UNCHANGED wire

(* ------------------------------------------------------------------ *)
(* Specifications                                                      *)
(* ------------------------------------------------------------------ *)

\* The caller runs the next reload once the last one has failed or its old
\* database has been reclaimed.
ReloadAgain ==
    /\ Running /\ gen < MaxCycles
    /\ co.pc = "reclaimed" \/ (co.pc = "returned" /\ co.ret # "EOK")
    /\ gen' = gen + 1
    /\ queue' = conf
    /\ co' = InitCo
    /\ wk' = [w \in Workers |-> InitWorker]
    /\ pre' = [live |-> nsZoneDb, zone |-> zone, cont |-> cont, db |-> db[nsZoneDb]]
    /\ outcome' = [i \in 1..MaxConf |-> "none"]
    /\ collided' = FALSE
    /\ UNCHANGED <<files, fchanges, conf, zone, cont, db, nsZoneDb, lock, rd,
                   crashed, uaf>>
    /\ UNCHANGED wire

\* A zone file is written, created or removed between two reloads.
FileChangeIdle ==
    /\ Running /\ fchanges < MaxFileChanges /\ co.pc = "reclaimed"
    /\ \E n \in ConfNames(conf), f \in FileStates :
         /\ f # files[n]
         /\ files' = [files EXCEPT ![n] = f]
    /\ fchanges' = fchanges + 1
    /\ UNCHANGED <<conf, queue, zone, cont, db, nsZoneDb, co, wk, lock, rd,
                   gen, pre, outcome, collided, crashed, uaf>>
    /\ UNCHANGED wire

Next ==
    \/ \E w \in Workers : WorkerStep(w)
    \/ CoordinatorStep
    \/ FileChange

\* One reload cycle over a live database.
Spec == Init /\ [][Next]_vars

NextRcu ==
    \/ Next
    \/ CallerStep
    \/ \E r \in Readers : ReaderStep(r)

\* One reload cycle with lock-free readers and the caller's reclamation: zone
\* "a" meets one form for each status, zone "b" is served with contents.
InitRcu ==
    \E fa \in StatusForms, fb \in PresentForms :
      InitReload(<<ConfEntry("a", fa.xfr_in, 1), ConfEntry("b", fb.xfr_in, 2)>>,
                 [n \in Names |-> IF n = "a" THEN fa ELSE fb])

SpecRcu == InitRcu /\ [][NextRcu]_vars

\* A configuration that names zone "a" twice.
InitDup ==
    \E fa \in StatusForms, x \in BOOLEAN :
      InitReload(<<ConfEntry("a", fa.xfr_in, 1), ConfEntry("a", x, 2)>>,
                 [n \in Names |-> IF n = "a" THEN fa
                                  ELSE Form(<<"none", 0>>, NoFile, FALSE)])

\* One reload cycle whose configuration breaks the uniqueness of names.
SpecDup == InitDup /\ [][Next]_vars

\* A server that starts with an empty database and one configured zone.
InitGen ==
    \E f \in FileStates, x \in BOOLEAN :
      InitReload(<<ConfEntry("a", x, 1)>>,
                 [n \in Names |-> IF n = "a" THEN Form(<<"none", 0>>, f, x)
                                  ELSE Form(<<"none", 0>>, NoFile, FALSE)])

NextGen ==
    \/ Next
    \/ CallerStep
    \/ ReloadAgain
    \/ FileChangeIdle

\* Reload cycles in a row, each reclaimed before the next starts.
SpecGen == InitGen /\ [][NextGen]_vars

\* A server whose ns->zone_db is NULL when the reload is called.
InitNoDb ==
    /\ \E x \in BOOLEAN, f \in FileStates :
         /\ conf = <<ConfEntry("a", x, 1)>>
         /\ files = [n \in Names |-> f]
    /\ queue = conf
    /\ fchanges = 0
    /\ zone = [z \in ZoneIds |-> NoZone]
    /\ cont = [c \in ZoneIds |-> NoCont]
    /\ db = [d \in DbIds |-> NoDb]
    /\ nsZoneDb = NULL
    /\ co = InitCo
    /\ wk = [w \in Workers |-> InitWorker]
    /\ lock = NULL
    /\ rd = [r \in Readers |-> InitReader]
    /\ gen = 1
    /\ pre = [live |-> NULL, zone |-> zone, cont |-> cont, db |-> NoDb]
    /\ outcome = [i \in 1..MaxConf |-> "none"]
    /\ collided = FALSE
    /\ crashed = "no"
    /\ uaf = FALSE
    /\ wire = NoWire

\* A transfer or update starts on a zone of the live database: zone_freeze
\* raises no flag that would refuse it.
XferStart(z) ==
    /\ Running /\ zone[z].st = "live" /\ ~zone[z].busy
    /\ db[nsZoneDb].map[zone[z].name] = z
    /\ zone' = [zone EXCEPT ![z].busy = TRUE]
    /\ UNCHANGED <<files, fchanges, conf, queue, cont, db, nsZoneDb, co, wk, lock,
                   rd, gen, pre, outcome, collided, crashed, uaf>>
    /\ UNCHANGED wire

\* The transfer or update ends and schedules the next timer of its zone.
XferEnd(z) ==
    /\ Running /\ zone[z].st = "live" /\ zone[z].busy
    /\ zone' = [zone EXCEPT ![z].busy = FALSE, ![z].timer = TRUE]
    /\ UNCHANGED <<files, fchanges, conf, queue, cont, db, nsZoneDb, co, wk, lock,
                   rd, gen, pre, outcome, collided, crashed, uaf>>
    /\ UNCHANGED wire

NextBg ==
    \/ Next
    \/ \E z \in ZoneIds : XferStart(z) \/ XferEnd(z)

\* One configured zone, met in one form for each status.
InitBg ==
    \E fa \in StatusForms :
      InitReload(<<ConfEntry("a", fa.xfr_in, 1)>>,
                 [n \in Names |-> IF n = "a" THEN fa
                                  ELSE Form(<<"none", 0>>, NoFile, FALSE)])

\* One reload cycle while the transfers and updates of the zones go on.
SpecBg == InitBg /\ [][NextBg]_vars

\* A value is written into the buffer with knot_wire_write_u16 or _u32.
WireWrite ==
    /\ Running /\ wire.pc = "start"
    /\ wire' = [wire EXCEPT !.pc = "written",
                            !.buf = IF wire.bits = 16 THEN KnotWireWriteU16(wire.data)
                                    ELSE KnotWireWriteU32(wire.data)]
    /\ UNCHANGED <<files, fchanges, conf, queue, zone, cont, db, nsZoneDb, co, wk,
                   lock, rd, gen, pre, outcome, collided, crashed, uaf>>

\* The value is read back with knot_wire_read_u16 or _u32.
WireRead ==
    /\ Running /\ wire.pc = "written"
    /\ wire' = [wire EXCEPT !.pc = "read",
                            !.out = IF wire.bits = 16 THEN KnotWireReadU16(wire.buf)
                                    ELSE KnotWireReadU32(wire.buf)]
    /\ Undefined(wire.bits = 32 /\ KnotWireReadU32Undefined(wire.buf),
                 "knot_wire_read_u32")
    /\ UNCHANGED <<files, fchanges, conf, queue, zone, cont, db, nsZoneDb, co, wk,
                   lock, rd, gen, pre, outcome, collided, uaf>>

NextWire == WireWrite \/ WireRead

\* The bytes the 32-bit values are made of, and the values written: every
\* uint16_t, and the uint32_t made of four of those bytes.
WireBytes == {0, 1, 127, 128, 255}
Uint16Values == {Word(0, x) : x \in 0..(2 ^ 16 - 1)}
Uint32Values ==
    {Word(b1 * 256 + b2, b3 * 256 + b4) :
       b1 \in WireBytes, b2 \in WireBytes, b3 \in WireBytes, b4 \in WireBytes}

\* No reload is running; a value is about to be written.
InitWire ==
    /\ conf = <<>> /\ queue = <<>>
    /\ files = [n \in Names |-> NoFile]
    /\ fchanges = 0
    /\ zone = [z \in ZoneIds |-> NoZone]
    /\ cont = [c \in ZoneIds |-> NoCont]
    /\ db = [d \in DbIds |-> NoDb]
    /\ nsZoneDb = NULL
    /\ co = [InitCo EXCEPT !.pc = "idle"]
    /\ wk = [w \in Workers |-> InitWorker]
    /\ lock = NULL
    /\ rd = [r \in Readers |-> InitReader]
    /\ gen = 1
    /\ pre = [live |-> NULL, zone |-> zone, cont |-> cont, db |-> NoDb]
    /\ outcome = [i \in 1..MaxConf |-> "none"]
    /\ collided = FALSE
    /\ crashed = "no"
    /\ uaf = FALSE
    /\ \E b \in {16, 32} :
         \E d \in (IF b = 16 THEN Uint16Values ELSE Uint32Values) :
           wire = [NoWire EXCEPT !.pc = "start", !.bits = b, !.data = d]

\* Values written to and read back from wire format.
SpecWire == InitWire /\ [][NextWire]_vars

\* One reload cycle in which every loader thread and the coordinator keep
\* being scheduled: each takes its next step when that step stays possible.
\* The calls to the file system, the journal and the signer return, each in
\* one step; a change of a zone file is under no obligation to happen.
Fairness ==
    /\ \A w \in Workers : WF_vars(WorkerStep(w))
    /\ WF_vars(CoordinatorStep)

SpecLive == Init /\ [][Next]_vars /\ Fairness

\* One reload cycle, called with or without a live database.
SpecEntry == (Init \/ InitNoDb) /\ [][Next]_vars

(* ------------------------------------------------------------------ *)
(* Properties                                                          *)
(* ------------------------------------------------------------------ *)

\* The readers inside a lookup, and the databases they read from ns->zone_db.
Reading == {r \in Readers : rd[r].pc # "idle"}
ReadDbs == {rd[r].db : r \in Reading}

\* The contents the zones of database d serve.
Served(d) == {zone[db[d].map[n]].contents : n \in {m \in Names : db[d].map[m] # NULL}} \ {NULL}

\* C1: ns->zone_db is written at most once per cycle, by the exchange, after
\* every loader thread has been joined and the index of the new database has
\* been built; a reader reads the old database or the new one, and a database
\* that is live or that a reader has read is never modified, so what the
\* reader sees is the complete old or the complete new database.
C1_AtomicPublish ==
    /\ [](/\ nsZoneDb \in {pre.live, co.db_new}
          /\ ReadDbs \subseteq {pre.live, co.db_new}
          /\ \A d \in (ReadDbs \cup {nsZoneDb}) \ {pre.live} :
               AllJoined /\ db[d].st = "live" /\ db[d].indexed)
    /\ [][/\ nsZoneDb' # nsZoneDb =>
               /\ co.pc = "xchg" /\ co.swaps = 0 /\ AllJoined
               /\ nsZoneDb = pre.live /\ nsZoneDb' = co.db_new
               /\ db[co.db_new].indexed
          /\ \A d \in ReadDbs \cup {nsZoneDb} : db'[d] = db[d]]_vars

\* A reader that read the old database is still inside its lookup when the
\* new database, holding both configured zones, has been published.
C1_Witness ==
    /\ co.swaps = 1 /\ nsZoneDb = co.db_new /\ nsZoneDb # pre.live
    /\ KnotZonedbSize(db[nsZoneDb]) = 2
    /\ \E r \in Reading : rd[r].db = pre.live /\ rd[r].z # NULL

\* C2: a reader never dereferences a released zone or released contents: the
\* zone a reader is about to dereference and the contents it is about to
\* dereference are live.
C2_NoUseAfterFree ==
    /\ ~uaf
    /\ \A r \in Readers :
         /\ rd[r].pc = "zone" => zone[rd[r].z].st = "live"
         /\ rd[r].pc = "contents" => cont[rd[r].c].st = "live"

\* C3: each contents instance is the contents of at most one live zone.
C3_SingleOwnership ==
    \A c \in ZoneIds :
      cont[c].st = "live" =>
        Cardinality({z \in ZoneIds : zone[z].st = "live" /\ zone[z].contents = c}) <= 1

\* C4: when the reload has returned KNOT_EOK, the old database no longer holds
\* an entry for a zone that was preserved, and no zone left in it references
\* contents that a zone of the live database serves.
C4_OldDbOnlyRetired ==
    (co.pc = "returned" /\ co.ret = "EOK") =>
      /\ \A i \in 1..Len(conf) :
           outcome[i] = "is up-to-date" => db[co.db_old].map[conf[i].name] = NULL
      /\ Served(co.db_old) \cap Served(nsZoneDb) = {}

\* The outcomes that put a zone into the new database.
Succeeded == {"bootstrapped", "loaded", "is up-to-date", "reloaded"}
Entries == 1..Len(conf)

\* C5: a zone whose build or pipeline fails never brings the reload down: the
\* process does not die in the rollback of the failed zone, and a reload that
\* ran its loader threads returns KNOT_EOK with the new database published,
\* holding the zone of every entry that succeeded and no zone of an entry
\* that failed.
C5_FailureIsolation ==
    /\ crashed # "update_zone"
    /\ (co.pc = "returned" /\ co.db_new # NULL) =>
         /\ co.ret = "EOK" /\ nsZoneDb = co.db_new
         /\ \A i \in Entries :
              /\ outcome[i] = "failed" => db[nsZoneDb].map[conf[i].name] = NULL
              /\ outcome[i] \in Succeeded =>
                   db[nsZoneDb].map[conf[i].name] = NewId(gen, i)

\* C6: when the reload has returned KNOT_EOK every configured zone has an
\* outcome, and the loaded count is the number of zones whose outcome is a
\* successful one.
C6_OutcomeCount ==
    (co.pc = "returned" /\ co.ret = "EOK") =>
      /\ \A i \in Entries : outcome[i] \in Succeeded \cup {"failed"}
      /\ co.loaded = Cardinality({i \in Entries : outcome[i] \in Succeeded})

C9_StablePreservation ==
    fchanges = 0 =>
      /\ \A w \in Workers :
           (wk[w].pc = "build" /\ wk[w].old # NULL
              /\ zone[wk[w].old].contents # NULL
              /\ zone[wk[w].old].src = files[wk[w].conf.name])
             => wk[w].status = ZONE_STATUS_FOUND_CURRENT
      /\ \A i \in Entries :
           LET o == pre.db.map[conf[i].name]
           IN  (co.pc = "returned" /\ co.ret = "EOK" /\ outcome[i] \in Succeeded
                  /\ o # NULL /\ pre.zone[o].contents # NULL
                  /\ pre.zone[o].src = files[conf[i].name])
                 => zone[NewId(gen, i)].contents = pre.zone[o].contents

\* create_zone has just returned for a zone classified new or updated: with a
\* zone (Built), or without one (NotBuilt).
Parsing(w) == wk[w].status \in {ZONE_STATUS_FOUND_NEW, ZONE_STATUS_FOUND_UPDATED}
Built(w) == Parsing(w) /\ wk[w].pc = "journal"
NotBuilt(w) == Parsing(w) /\ wk[w].pc = "lock2" /\ wk[w].res = "EZONENOENT"

\* What C10 says of a zone that was built: its contents are new ones that
\* belong to it, not those of the old zone, and the zone records the
\* modification time of the file and the serial of the parsed contents.
BuiltAfresh(w) ==
    LET n == wk[w].new
        c == zone[n].contents
    IN  /\ n = NewId(gen, wk[w].conf.idx) /\ zone[n].st = "live"
        /\ c = n /\ cont[c].st = "live" /\ cont[c].zone = n
        /\ wk[w].old # NULL => zone[wk[w].old].contents # c
        /\ zone[n].name = wk[w].conf.name
        /\ zone[n].mtime \in wk[w].statres
        /\ zone[n].serial = cont[c].serial
        /\ cont[c].serial = FileSerial(zone[n].src)

\* A file whose apex is not the configured name: the parsed zone and its
\* contents are released.
MismatchDiscarded(w) ==
    wk[w].parsed \notin {NoName, wk[w].conf.name} =>
      /\ zone[NewId(gen, wk[w].conf.idx)].st = "freed"
      /\ cont[NewId(gen, wk[w].conf.idx)].st = "freed"

\* C10 as stated: a zone classified new or updated is built if and only if
\* the parse succeeds and the parsed apex is the configured name.
C10_BuiltIffParsed ==
    \A w \in Workers :
      /\ Built(w) => wk[w].parsed = wk[w].conf.name /\ BuiltAfresh(w)
      /\ NotBuilt(w) => wk[w].parsed # wk[w].conf.name /\ MismatchDiscarded(w)

\* C10 as amended: the zone is built if and only if the parse succeeds, the
\* parsed apex is the configured name and the stat() that follows succeeds.
C10_BuiltIffParsedAndStat ==
    \A w \in Workers :
      /\ Built(w) =>
           /\ wk[w].parsed = wk[w].conf.name
           /\ wk[w].statres # {} /\ NoFile \notin wk[w].statres
           /\ BuiltAfresh(w)
      /\ NotBuilt(w) =>
           /\ wk[w].parsed # wk[w].conf.name \/ wk[w].statres = {NoFile}
           /\ MismatchDiscarded(w)
           /\ wk[w].new = NULL

\* One loader thread has built an updated zone while the other has rejected
\* a file with a mismatching apex.
C10_Witness ==
    \E w, v \in Workers :
      /\ Built(w) /\ wk[w].status = ZONE_STATUS_FOUND_UPDATED
      /\ NotBuilt(v) /\ wk[v].parsed \notin {NoName, wk[v].conf.name}

\* The zone a NotFound build has just produced, or failed to produce.
Bootstrapping(w) == wk[w].status = ZONE_STATUS_NOT_FOUND
Bootstrapped(w) == Bootstrapping(w) /\ wk[w].pc = "journal"
NotBootstrapped(w) ==
    Bootstrapping(w) /\ wk[w].pc = "lock2" /\ wk[w].res = "EZONENOENT"

\* What C11 says of the zone produced: a live zone of the configured name
\* without contents; and a zone counted as bootstrapped has a transfer-in
\* source and is in the new database without contents.
PlaceholderOnly ==
    /\ \A w \in Workers :
         Bootstrapped(w) =>
           /\ wk[w].conf.xfr_in
           /\ zone[wk[w].new].st = "live" /\ zone[wk[w].new].contents = NULL
           /\ zone[wk[w].new].name = wk[w].conf.name
    /\ \A i \in Entries :
         /\ outcome[i] = "bootstrapped" =>
              /\ conf[i].xfr_in
              /\ db[co.db_new].map[conf[i].name] = NewId(gen, i)
              /\ zone[NewId(gen, i)].contents = NULL
         /\ (~conf[i].xfr_in /\ files[conf[i].name] = NoFile /\ fchanges = 0
               /\ co.db_new # NULL)
              => db[co.db_new].map[conf[i].name] = NULL

\* C11 as stated: for a zone whose file is absent a zone is produced if and
\* only if the configuration lists a transfer-in source, and it is a
\* placeholder without contents.
C11_BootstrapIffXfrIn ==
    /\ PlaceholderOnly
    /\ \A w \in Workers : NotBootstrapped(w) => ~wk[w].conf.xfr_in

\* C11 as amended: the zone is produced if and only if a transfer-in source
\* is listed and zone_new gives a zone.
C11_BootstrapIffXfrInAndAlloc ==
    /\ PlaceholderOnly
    /\ \A w \in Workers :
         NotBootstrapped(w) => (~wk[w].conf.xfr_in \/ wk[w].nomem)
    /\ \A w \in Workers : Bootstrapped(w) => ~wk[w].nomem

\* A placeholder has been built over the placeholder of an earlier reload.
C11_Witness ==
    \E w \in Workers : Bootstrapped(w) /\ wk[w].old # NULL /\ wk[w].conf.xfr_in

\* C12: a reload that returns KNOT_EOK has stored in *db_old the database
\* that was live before the exchange, which is not the database now live; a
\* reload that returns a failure has not written *db_old.
C12_OldHandle ==
    co.pc = "returned" =>
      IF co.ret = "EOK"
      THEN co.db_old = pre.live /\ co.db_old # nsZoneDb /\ nsZoneDb = co.db_new
      ELSE co.db_old = NULL /\ nsZoneDb = pre.live

\* The reload has returned KNOT_EOK with two zones published.
C12_Witness ==
    /\ co.pc = "returned" /\ co.ret = "EOK" /\ co.db_old # NULL
    /\ KnotZonedbSize(db[nsZoneDb]) = 2

\* C13: when the build of a zone starts, and as long as it runs, the zone's
\* predecessor in the live database is frozen: it has no timer scheduled and
\* no transfer or update in flight; and no zone with a transfer or update in
\* flight shares its contents with a zone of the new database.
C13_FrozenAtBuild ==
    /\ \A w \in Workers :
         (wk[w].pc \in {"build", "stat"} /\ wk[w].old # NULL) =>
           ~zone[wk[w].old].timer /\ ~zone[wk[w].old].busy
    /\ \A o \in ZoneIds, n \in Names :
         (co.db_new # NULL /\ zone[o].st = "live" /\ zone[o].busy
            /\ zone[o].contents # NULL /\ db[co.db_new].map[n] \notin {NULL, o})
           => zone[db[co.db_new].map[n]].contents # zone[o].contents

\* A register holds a value of uintN_t.
InRange(w, n) == w[2] \in 0..(2 ^ 16 - 1) /\ w[1] \in 0..(2 ^ (n - 16) - 1)

\* C14: a value read back is the value written, it is within the range of
\* its type, the first byte written is the most significant one, and every
\* byte is a byte; no read fails, whatever the top bit of the value.
C14_WireRoundTrip ==
    /\ crashed # "knot_wire_read_u32"
    /\ wire.pc \in {"written", "read"} =>
         /\ Len(wire.buf) = wire.bits \div 8
         /\ \A i \in 1..Len(wire.buf) : wire.buf[i] \in 0..255
         /\ wire.buf[1] = Shr(wire.data, wire.bits - 8)[2]
    /\ wire.pc = "read" =>
         /\ wire.out = wire.data
         /\ InRange(wire.out, wire.bits)

\* Worker w rolls a built zone back in this step: the pipeline aborted, or
\* the insertion of the zone failed.
RollsBack(w) ==
    \/ wk[w].pc = "fail" /\ wk[w].res # "EOK" /\ wk'[w].pc = "lock2"
    \/ /\ wk[w].pc = "insert" /\ wk[w].res = "EOK" /\ wk'[w].pc = "lock1"
       /\ outcome'[wk[w].conf.idx] = "failed"
\* The zone of worker w took over the contents of the old zone.
Reused(w) ==
    wk[w].status = ZONE_STATUS_FOUND_CURRENT /\ zone[wk[w].old].contents # NULL
\* The zone of worker w was parsed from its file.
FreshlyParsed(w) ==
    wk[w].status \in {ZONE_STATUS_FOUND_NEW, ZONE_STATUS_FOUND_UPDATED}

\* C15: a rollback of a zone that reused the contents of the old zone leaves
\* the contents alive and owned by the old zone and releases the new zone
\* only; a rollback of a freshly parsed zone releases the new zone and its
\* contents and leaves the old zone and its contents as they were.
C15_Rollback ==
    [][\A w \in Workers :
         RollsBack(w) =>
           LET o == wk[w].old
               n == wk[w].new
               c == zone[n].contents
           IN  /\ Reused(w) =>
                    /\ c = zone[o].contents
                    /\ cont'[c].st = "live" /\ cont'[c].zone = o
                    /\ zone'[o] = zone[o]
                    /\ zone'[n] = FreedZone
               /\ FreshlyParsed(w) =>
                    /\ zone'[n] = FreedZone /\ cont'[c] = FreedCont
                    /\ o # NULL =>
                         /\ zone'[o] = zone[o]
                         /\ zone[o].contents # NULL =>
                              cont'[zone[o].contents] = cont[zone[o].contents]]_vars

\* A pipeline that reused the contents of the old zone has aborted: the new
\* zone is released and the contents are bound back to the old zone.
C15_Witness ==
    \E w \in Workers :
      /\ wk[w].pc = "lock2" /\ wk[w].res \notin {"EOK", "EZONENOENT"}
      /\ wk[w].status = ZONE_STATUS_FOUND_CURRENT
      /\ zone[wk[w].old].contents # NULL
      /\ cont[zone[wk[w].old].contents].zone = wk[w].old
      /\ zone[NewId(gen, wk[w].conf.idx)] = FreedZone

\* C16: the sync timer of a zone is scheduled after journal replay,
\* diff-and-sign and the NSEC3 parameter check have passed, so a zone whose
\* pipeline has aborted never has had its timer scheduled.
C16_SyncScheduledLast ==
    \A w \in Workers :
      wk[w].pc \in {"fail", "lock2", "insert"} /\ wk[w].res # "EOK" => ~wk[w].sched

\* The pipeline of worker w has run to the label fail of update_zone.
PipelineDone(w) == wk[w].pc = "fail"

\* The results of zones_journal_apply that let the update go on: applied
\* (KNOT_EOK) and nothing to apply (KNOT_ERANGE, KNOT_ENOENT).
JournalPassed == {"EOK", "ERANGE", "ENOENT"}

\* C17: the pipeline of a built zone succeeds exactly when journal replay
\* returned applied or nothing to apply, diff-and-sign succeeded and, for a
\* zone with contents, the NSEC3 parameter check succeeded: diff-and-sign is
\* reached with such a journal result only, a pipeline that ends without
\* diff-and-sign ends with another journal result, and one that ends after
\* diff-and-sign succeeds exactly when the two later steps did; the warning
\* about the EDNS payload leaves the result alone, and the zone is handed on
\* to the insertion.
C17_PipelineResult ==
    \A w \in Workers :
      /\ wk[w].pc = "sign" => wk[w].res \in JournalPassed
      /\ PipelineDone(w) /\ wk[w].sres = NoResult => wk[w].res \notin JournalPassed
      /\ PipelineDone(w) /\ wk[w].sres # NoResult =>
           (wk[w].res = "EOK" <=>
              /\ wk[w].sres = "EOK"
              /\ zone[wk[w].new].contents # NULL => wk[w].nres = "EOK")
      /\ wk[w].warned => wk[w].res = "EOK" /\ zone[wk[w].new].st = "live"

\* A signed zone with a low EDNS payload has passed the pipeline.
C17_Witness ==
    \E w \in Workers :
      /\ PipelineDone(w) /\ wk[w].res = "EOK" /\ wk[w].warned
      /\ wk[w].sres = "EOK" /\ wk[w].nres = "EOK"

\* create_zone has returned a zone to update_zone for worker w.
InPipeline(w) == wk[w].pc \in {"journal", "sign", "sched", "nsec3", "fail"}

\* C18: new_content is true for a zone built on the NotFound, New or Updated
\* path and false exactly on the Current path, whatever the old zone is.
C18_ContentChanged ==
    \A w \in Workers :
      InPipeline(w) => (wk[w].nc <=> wk[w].status # ZONE_STATUS_FOUND_CURRENT)

\* The workers inside a critical section of ctx->lock, and the workers that
\* hold configuration entry i.
InCritical == {w \in Workers : wk[w].pc \in {"pop", "insert"}}
Holders(i) == {w \in Workers : wk[w].conf.idx = i}
\* Entry i is still in the queue.
Queued(i) == \E k \in 1..Len(queue) : queue[k].idx = i

\* C19: the pop and the insertion are critical sections of one mutex, so at
\* most one worker is inside either and it holds the mutex; every entry of the
\* configuration is in exactly one place: in the queue, with one worker, or
\* done with its outcome recorded.
C19_MutualExclusion ==
    /\ Cardinality(InCritical) <= 1
    /\ \A w \in InCritical : lock = w
    /\ \A i \in 1..Len(conf) :
         (IF Queued(i) THEN 1 ELSE 0) + Cardinality(Holders(i))
           + (IF outcome[i] # "none" THEN 1 ELSE 0) = 1

\* One worker is inserting its zone while another worker, its pipeline done,
\* waits for the mutex.
C19_Witness ==
    \E w1 \in Workers, w2 \in Workers :
      /\ w1 # w2 /\ lock = w1
      /\ wk[w1].pc = "insert" /\ wk[w2].pc = "lock2"
      /\ wk[w1].conf.idx # wk[w2].conf.idx

\* Worker w has been started and has not returned yet.
Started(w) == wk[w].pc \notin {"off", "exit"}
\* Worker w has popped an entry and has not finished with it.
Busy(w) == Started(w) /\ wk[w].pc \notin {"lock1", "pop"}
\* The coordinator is past dt_join.
Joined == co.pc \notin {"entry", "call", "mutex", "dt_create", "join"}

\* C20: under fair scheduling every started worker returns, a worker that
\* has popped an entry finishes with it, a worker that waits for the mutex
\* gets it, and the coordinator is past the join only when every worker has
\* returned.
C20_WorkersTerminate ==
    /\ \A w \in Workers : Started(w) ~> (wk[w].pc = "exit")
    /\ \A w \in Workers : Busy(w) ~> (wk[w].pc \in {"lock1", "exit"})
    /\ \A w \in Workers : (wk[w].pc = "lock2") ~> (wk[w].pc = "insert")
    /\ [](Joined => AllJoined)

\* Worker w classifies the zone file of its entry in this step.
Classifies(w) == wk[w].pc = "status" /\ wk'[w].pc = "build"

\* C21: the status is decided by the old zone and the state of the file
\* alone, by the first rule that applies: no file, NOT_FOUND; no old zone,
\* FOUND_NEW; recorded time equal to the time of the file, FOUND_CURRENT;
\* else FOUND_UPDATED; the step changes no zone, no contents and no database.
C21_Classifier ==
    [][\A w \in Workers :
         Classifies(w) =>
           LET o == wk[w].old
               f == files[wk[w].conf.name]
           IN  /\ f = NoFile => wk'[w].status = ZONE_STATUS_NOT_FOUND
               /\ f # NoFile /\ o = NULL => wk'[w].status = ZONE_STATUS_FOUND_NEW
               /\ f # NoFile /\ o # NULL /\ zone[o].mtime = f =>
                    wk'[w].status = ZONE_STATUS_FOUND_CURRENT
               /\ f # NoFile /\ o # NULL /\ zone[o].mtime # f =>
                    wk'[w].status = ZONE_STATUS_FOUND_UPDATED
               /\ zone' = zone /\ cont' = cont /\ db' = db /\ nsZoneDb' = nsZoneDb
               /\ files' = files]_vars

\* The file of a zone that the live database holds with contents is gone:
\* the status is NOT_FOUND although there is an old zone.
C21_Witness ==
    \E w \in Workers :
      /\ wk[w].pc = "build" /\ wk[w].status = ZONE_STATUS_NOT_FOUND
      /\ wk[w].old # NULL /\ zone[wk[w].old].contents # NULL
      /\ files[wk[w].conf.name] = NoFile

\* The functions that write through the contents pointer of a zone.
ContentsWriters == {"preserve_zone", "update_zone", "zone_loader_thread"}

\* C22: the reload never reads or writes through the contents pointer of a
\* zone that has no contents: the process never dies in preserve_zone, in the
\* rollback of update_zone or in the rollback after a failed insertion.
C22_NoNullContents == crashed \notin ContentsWriters

\* The new database has been published.
Published == co.swaps > 0

\* C23: when the new database is published the queue is empty, no worker is
\* left with an entry it popped, and every entry has its outcome.
C23_QueueDrained ==
    Published =>
      /\ queue = <<>>
      /\ \A w \in Workers : wk[w].conf = NoConf
      /\ \A i \in Entries : outcome[i] # "none"

\* The coordinator is inside its RCU read-side critical section.
CoordReading == "coord" \in RcuHolders
\* zones_update_db_from_config has returned.
ReloadReturned == co.pc \notin {"entry", "call", "mutex", "dt_create", "join",
                                 "loaded", "rcu_lock", "index", "xchg", "remove",
                                 "unlock"}

\* C24: the coordinator is inside its read-side critical section only while
\* every loader thread has returned, it has left the section when the reload
\* has returned, and no loader thread waits for a grace period that the
\* section of the coordinator keeps open.
C24_RcuAfterJoin ==
    /\ CoordReading => AllJoined
    /\ ReloadReturned => ~CoordReading
    /\ \A w \in Workers : "coord" \notin wk[w].wait

\* The coordinator is inside its read-side critical section, after a loader
\* thread has frozen an old zone behind a grace period, while a reader is
\* inside a section of its own.
C24_Witness ==
    /\ CoordReading /\ co.pc = "remove"
    /\ \E z \in ZoneIds : pre.zone[z].timer /\ ~zone[z].timer
    /\ \E r \in Readers : r \in RcuHolders

\* C25: when load_zone has returned, the zone loader it opened is closed and
\* the name it made for the comparison is freed: both are held only between
\* the parse and the second look at the file.
C25_LoadZoneReleases ==
    \A w \in Workers :
      wk[w].pc # "stat" => ~wk[w].zl /\ ~wk[w].dname_req

====
